---- MODULE Spec2Model ----
(***************************************************************************)
(* A model of kv/passwords.go: the password service of the kv package.     *)
(*                                                                         *)
(* Shared state is the transactional store (the user bucket, reduced to    *)
(* the set of known user IDs, and the bucket "userspasswordv1").  Each     *)
(* caller runs one of SetPassword, ComparePassword, CompareAndSetPassword; *)
(* a caller's step is either local computation followed by one store       *)
(* transaction (kv.View / kv.Update run their function atomically), so a   *)
(* CompareAndSetPassword takes three steps: generatePasswordHash,          *)
(* compareUserPassword (one View) and setPasswordHash (one Update).        *)
(***************************************************************************)
EXTENDS Integers, Sequences, FiniteSets, TLC

\* ------------------------------------------------------------------ bounds
MaxPasswordLength == 9   \* the longest plaintext a caller passes
MaxCostArg == 32         \* the highest cost a caller passes to the hasher

\* --------------------------------------------------------- program constants
MinPasswordLength == 8
DefaultCost == 10  \* bcrypt.DefaultCost
MinCost == 4       \* bcrypt.MinCost
MaxCost == 31      \* bcrypt.MaxCost
IDLength == 16     \* influxdb.IDLength: width of an encoded ID

\* Two concurrent callers.
Procs == {1, 2}
\* The invalid ID 0, and two valid IDs.
UserIDs == {0, 1, 2}

\* A plaintext is a sequence of bytes; Rep(c, n) is c repeated n times.
Rep(c, n) == [i \in 1..n |-> c]
Plaintexts == {Rep(1, MinPasswordLength - 1), Rep(1, MinPasswordLength), Rep(2, MaxPasswordLength)}

\* ------------------------------------------------------------------ errors
\* An error value: Kind tells an *influxdb.Error from a plain Go error.
nil == [Kind |-> "nil", Code |-> "", Msg |-> <<>>, Op |-> ""]

RawError(name) == [Kind |-> "error", Code |-> "", Msg |-> <<name>>, Op |-> ""]

EIncorrectPassword ==
  [Kind |-> "influxdb.Error", Code |-> "forbidden",
   Msg |-> <<"your username or password is incorrect">>, Op |-> ""]

EIncorrectUser ==
  [Kind |-> "influxdb.Error", Code |-> "forbidden",
   Msg |-> <<"your userID is incorrect">>, Op |-> ""]

EShortPassword ==
  [Kind |-> "influxdb.Error", Code |-> "invalid",
   Msg |-> <<"passwords must be at least 8 characters long">>, Op |-> ""]

UnavailablePasswordServiceError(err) ==
  [Kind |-> "influxdb.Error", Code |-> "unavailable",
   Msg |-> <<"Unable to connect to password service. Please try again; Err: ", err>>,
   Op |-> "kv/setPassword"]

CorruptUserIDError(userID, err) ==
  [Kind |-> "influxdb.Error", Code |-> "internal error",
   Msg |-> <<"User ID has been corrupted; Err: ", userID, err>>,
   Op |-> "kv/setPassword"]

InternalPasswordHashError(err) ==
  [Kind |-> "influxdb.Error", Code |-> "internal error",
   Msg |-> <<"Unable to generate password; Err: ", err>>,
   Op |-> "kv/setPassword"]

\* --------------------------------------------------- identifier encoding
\* influxdb.ID.Encode: the 16 hexadecimal digits of the ID, most significant
\* first; the zero ID is invalid.
\* (The IDs of the model are below 16^7, so the higher digits are 0.)
HexDigit(id, i) == IF IDLength - i < 7 THEN (id \div (16 ^ (IDLength - i))) % 16 ELSE 0

Encode(id) ==
  IF id = 0
    THEN [b |-> <<>>, err |-> "ErrInvalidID"]
    ELSE [b |-> [i \in 1..IDLength |-> HexDigit(id, i)], err |-> ""]

\* influxdb.ID.String: the encoded form, or "" for the invalid ID.
String(id) == Encode(id).b

Keys == {Encode(id).b : id \in UserIDs \ {0}}

\* ------------------------------------------------------- hashing strategy
\* A digest of the bcrypt primitive: it carries its cost and verifies exactly
\* the plaintext it was generated from.  NoHash is the nil byte slice.
NoHash == [pw |-> <<>>, cost |-> 0]

\* golang.org/x/crypto/bcrypt.GenerateFromPassword; rnd is the outcome of
\* drawing the salt ("" or the error of the random source).
\* The library replaces a cost below MinCost by its own default cost and
\* rejects a cost above MaxCost before it draws the salt.
bcryptGenerateFromPassword(password, cost, rnd) ==
  LET c == IF cost < MinCost THEN DefaultCost ELSE cost
  IN IF c > MaxCost
       THEN [hash |-> NoHash, err |-> "InvalidCostError"]
       ELSE IF rnd # ""
         THEN [hash |-> NoHash, err |-> rnd]
         ELSE [hash |-> [pw |-> password, cost |-> c], err |-> ""]

\* golang.org/x/crypto/bcrypt.CompareHashAndPassword
bcryptCompareHashAndPassword(hashedPassword, password) ==
  IF hashedPassword = NoHash
    THEN "ErrHashTooShort"
    ELSE IF hashedPassword.pw = password THEN "" ELSE "ErrMismatchedHashAndPassword"

\* Variant: any plaintext verifies against a stored digest.
CompareHashAndPassword_AcceptAny(hashedPassword, password) ==
  IF hashedPassword = NoHash THEN "ErrHashTooShort" ELSE ""

\* Bcrypt.CompareHashAndPassword
CompareHashAndPassword(hashedPassword, password) ==
  bcryptCompareHashAndPassword(hashedPassword, password)

\* Variant: the minimum cost itself is replaced by the default cost too.
GenerateFromPassword_ClampAtMin(password, cost, rnd) ==
  bcryptGenerateFromPassword(password, IF cost <= MinCost THEN DefaultCost ELSE cost, rnd)

\* Bcrypt.GenerateFromPassword
GenerateFromPassword(password, cost, rnd) ==
  bcryptGenerateFromPassword(password, IF cost < MinCost THEN DefaultCost ELSE cost, rnd)

\* One entry of a call's trace: a collaborator that was called and the error
\* it returned ("" for none).
Ev(call, err) == <<call, err>>

\* Variant: the length check is off by one.
generatePasswordHash_OffByOne(password, rnd) ==
  IF Len(password) < MinPasswordLength - 1
    THEN [hash |-> NoHash, err |-> EShortPassword, trace |-> <<>>]
    ELSE LET r == GenerateFromPassword(password, DefaultCost, rnd)
             ev == <<Ev("GenerateFromPassword", r.err)>>
         IN IF r.err # ""
              THEN [hash |-> NoHash, err |-> InternalPasswordHashError(r.err), trace |-> ev]
              ELSE [hash |-> r.hash, err |-> nil, trace |-> ev]

\* Service.generatePasswordHash
generatePasswordHash(password, rnd) ==
  IF Len(password) < MinPasswordLength
    THEN [hash |-> NoHash, err |-> EShortPassword, trace |-> <<>>]
    ELSE LET r == GenerateFromPassword(password, DefaultCost, rnd)
             ev == <<Ev("GenerateFromPassword", r.err)>>
         IN IF r.err # ""
              THEN [hash |-> NoHash, err |-> InternalPasswordHashError(r.err), trace |-> ev]
              ELSE [hash |-> r.hash, err |-> nil, trace |-> ev]

\* ------------------------------------------------- external collaborators
\* What can go wrong in one transaction: nothing, the transaction cannot
\* begin, the bucket lookup or the Get/Put errors, or (for Update) the commit
\* fails.
ViewFaults == {"none", "begin", "bucket", "get"}
UpdateFaults == {"none", "begin", "bucket", "put", "commit"}

\* Service.findUserByID: any error means the user was not resolved.
findUserByID(us, userID) ==
  IF userID \in us THEN "" ELSE "ErrUserNotFound"

\* Tx.Bucket
Bucket(fault) == IF fault = "bucket" THEN "ErrBucketNotFound" ELSE ""

\* Bucket.Get: an absent key is an error of its own.
Get(st, key, fault) ==
  IF fault = "get" THEN [value |-> NoHash, err |-> "ErrStore"]
  ELSE IF st[key] = NoHash THEN [value |-> NoHash, err |-> "ErrKeyNotFound"]
  ELSE [value |-> st[key], err |-> ""]

\* Bucket.Put
Put(st, key, value, fault) ==
  IF fault = "put" THEN [store |-> st, err |-> "ErrStore"]
  ELSE [store |-> [st EXCEPT ![key] = value], err |-> ""]

\* ---------------------------------------------------------------- service
\* Variant: the user lookup is left out of the read.
getPasswordHashTx_NoUserCheck(st, us, userID, fault) ==
  LET enc == Encode(userID)
      t1 == <<Ev("Encode", enc.err)>>
      bk == Bucket(fault)
      t3 == Append(t1, Ev("Bucket", bk))
      g == Get(st, enc.b, fault)
      t4 == Append(t3, Ev("Get", g.err))
  IN IF enc.err # "" THEN [hash |-> NoHash, err |-> CorruptUserIDError(String(userID), enc.err), trace |-> t1]
     ELSE IF bk # "" THEN [hash |-> NoHash, err |-> UnavailablePasswordServiceError(bk), trace |-> t3]
     ELSE IF g.err # "" THEN [hash |-> g.value, err |-> EIncorrectPassword, trace |-> t4]
     ELSE [hash |-> g.value, err |-> nil, trace |-> t4]

\* Variant: the digest is read under the key of the next user.
getPasswordHashTx_WrongKey(st, us, userID, fault) ==
  LET enc == Encode(userID)
      t1 == <<Ev("Encode", enc.err)>>
      fu == findUserByID(us, userID)
      t2 == Append(t1, Ev("findUserByID", fu))
      bk == Bucket(fault)
      t3 == Append(t2, Ev("Bucket", bk))
      g == Get(st, Encode((userID % 2) + 1).b, fault)
      t4 == Append(t3, Ev("Get", g.err))
  IN IF enc.err # "" THEN [hash |-> NoHash, err |-> CorruptUserIDError(String(userID), enc.err), trace |-> t1]
     ELSE IF fu # "" THEN [hash |-> NoHash, err |-> EIncorrectUser, trace |-> t2]
     ELSE IF bk # "" THEN [hash |-> NoHash, err |-> UnavailablePasswordServiceError(bk), trace |-> t3]
     ELSE IF g.err # "" THEN [hash |-> g.value, err |-> EIncorrectPassword, trace |-> t4]
     ELSE [hash |-> g.value, err |-> nil, trace |-> t4]

\* The function Service.getPasswordHash hands to kv.View.
getPasswordHashTx(st, us, userID, fault) ==
  LET enc == Encode(userID)
      t1 == <<Ev("Encode", enc.err)>>
      fu == findUserByID(us, userID)
      t2 == Append(t1, Ev("findUserByID", fu))
      bk == Bucket(fault)
      t3 == Append(t2, Ev("Bucket", bk))
      g == Get(st, enc.b, fault)
      t4 == Append(t3, Ev("Get", g.err))
  IN IF enc.err # "" THEN [hash |-> NoHash, err |-> CorruptUserIDError(String(userID), enc.err), trace |-> t1]
     ELSE IF fu # "" THEN [hash |-> NoHash, err |-> EIncorrectUser, trace |-> t2]
     ELSE IF bk # "" THEN [hash |-> NoHash, err |-> UnavailablePasswordServiceError(bk), trace |-> t3]
     ELSE IF g.err # "" THEN [hash |-> g.value, err |-> EIncorrectPassword, trace |-> t4]
     ELSE [hash |-> g.value, err |-> nil, trace |-> t4]

\* Service.getPasswordHash: kv.View returns its own error when it cannot
\* begin, and the function's error otherwise.
getPasswordHash(st, us, userID, fault) ==
  LET t0 == <<Ev("View", IF fault = "begin" THEN "ErrTx" ELSE "")>>
      r == getPasswordHashTx(st, us, userID, fault)
  IN IF fault = "begin"
       THEN [hash |-> NoHash, err |-> RawError("ErrTx"), trace |-> t0]
       ELSE [hash |-> r.hash, err |-> r.err, trace |-> t0 \o r.trace]

\* Variant: the result of CompareHashAndPassword is dropped.
compareUserPassword_IgnoreMismatch(st, us, userID, password, fault) ==
  LET r == getPasswordHash(st, us, userID, fault)
      c == CompareHashAndPassword(r.hash, password)
      t == Append(r.trace, Ev("CompareHashAndPassword", c))
  IN IF r.err # nil THEN [err |-> r.err, trace |-> r.trace]
     ELSE [err |-> nil, trace |-> t]

\* Service.compareUserPassword
compareUserPassword(st, us, userID, password, fault) ==
  LET r == getPasswordHash(st, us, userID, fault)
      c == CompareHashAndPassword(r.hash, password)
      t == Append(r.trace, Ev("CompareHashAndPassword", c))
  IN IF r.err # nil THEN [err |-> r.err, trace |-> r.trace]
     ELSE IF c # "" THEN [err |-> EIncorrectPassword, trace |-> t]
     ELSE [err |-> nil, trace |-> t]

\* Variant: the digest is never put.
setPasswordHashTx_NoPut(st, us, userID, hash, fault) ==
  LET enc == Encode(userID)
      t1 == <<Ev("Encode", enc.err)>>
      fu == findUserByID(us, userID)
      t2 == Append(t1, Ev("findUserByID", fu))
      bk == Bucket(fault)
      t3 == Append(t2, Ev("Bucket", bk))
  IN IF enc.err # "" THEN [store |-> st, err |-> CorruptUserIDError(String(userID), enc.err), trace |-> t1]
     ELSE IF fu # "" THEN [store |-> st, err |-> EIncorrectUser, trace |-> t2]
     ELSE IF bk # "" THEN [store |-> st, err |-> UnavailablePasswordServiceError(bk), trace |-> t3]
     ELSE [store |-> st, err |-> nil, trace |-> t3]

\* Variant: the user lookup is left out.
setPasswordHashTx_NoUserCheck(st, us, userID, hash, fault) ==
  LET enc == Encode(userID)
      t1 == <<Ev("Encode", enc.err)>>
      bk == Bucket(fault)
      t3 == Append(t1, Ev("Bucket", bk))
      p == Put(st, enc.b, hash, fault)
      t4 == Append(t3, Ev("Put", p.err))
  IN IF enc.err # "" THEN [store |-> st, err |-> CorruptUserIDError(String(userID), enc.err), trace |-> t1]
     ELSE IF bk # "" THEN [store |-> st, err |-> UnavailablePasswordServiceError(bk), trace |-> t3]
     ELSE IF p.err # "" THEN [store |-> st, err |-> UnavailablePasswordServiceError(p.err), trace |-> t4]
     ELSE [store |-> p.store, err |-> nil, trace |-> t4]

\* Variant: a failed Put is reported like a failed Get.
setPasswordHashTx_PutAsIncorrect(st, us, userID, hash, fault) ==
  LET enc == Encode(userID)
      t1 == <<Ev("Encode", enc.err)>>
      fu == findUserByID(us, userID)
      t2 == Append(t1, Ev("findUserByID", fu))
      bk == Bucket(fault)
      t3 == Append(t2, Ev("Bucket", bk))
      p == Put(st, enc.b, hash, fault)
      t4 == Append(t3, Ev("Put", p.err))
  IN IF enc.err # "" THEN [store |-> st, err |-> CorruptUserIDError(String(userID), enc.err), trace |-> t1]
     ELSE IF fu # "" THEN [store |-> st, err |-> EIncorrectUser, trace |-> t2]
     ELSE IF bk # "" THEN [store |-> st, err |-> UnavailablePasswordServiceError(bk), trace |-> t3]
     ELSE IF p.err # "" THEN [store |-> st, err |-> EIncorrectPassword, trace |-> t4]
     ELSE [store |-> p.store, err |-> nil, trace |-> t4]

\* Variant: the record is put under the key of the next user.
setPasswordHashTx_WrongKey(st, us, userID, hash, fault) ==
  LET enc == Encode(userID)
      t1 == <<Ev("Encode", enc.err)>>
      fu == findUserByID(us, userID)
      t2 == Append(t1, Ev("findUserByID", fu))
      bk == Bucket(fault)
      t3 == Append(t2, Ev("Bucket", bk))
      p == Put(st, Encode(userID + 1).b, hash, fault)
      t4 == Append(t3, Ev("Put", p.err))
  IN IF enc.err # "" THEN [store |-> st, err |-> CorruptUserIDError(String(userID), enc.err), trace |-> t1]
     ELSE IF fu # "" THEN [store |-> st, err |-> EIncorrectUser, trace |-> t2]
     ELSE IF bk # "" THEN [store |-> st, err |-> UnavailablePasswordServiceError(bk), trace |-> t3]
     ELSE IF p.err # "" THEN [store |-> st, err |-> UnavailablePasswordServiceError(p.err), trace |-> t4]
     ELSE [store |-> p.store, err |-> nil, trace |-> t4]

\* Variant: the bucket is looked up before the ID is encoded and resolved.
setPasswordHashTx_BucketFirst(st, us, userID, hash, fault) ==
  LET bk == Bucket(fault)
      t1 == <<Ev("Bucket", bk)>>
      enc == Encode(userID)
      t2 == Append(t1, Ev("Encode", enc.err))
      fu == findUserByID(us, userID)
      t3 == Append(t2, Ev("findUserByID", fu))
      p == Put(st, enc.b, hash, fault)
      t4 == Append(t3, Ev("Put", p.err))
  IN IF bk # "" THEN [store |-> st, err |-> UnavailablePasswordServiceError(bk), trace |-> t1]
     ELSE IF enc.err # "" THEN [store |-> st, err |-> CorruptUserIDError(String(userID), enc.err), trace |-> t2]
     ELSE IF fu # "" THEN [store |-> st, err |-> EIncorrectUser, trace |-> t3]
     ELSE IF p.err # "" THEN [store |-> st, err |-> UnavailablePasswordServiceError(p.err), trace |-> t4]
     ELSE [store |-> p.store, err |-> nil, trace |-> t4]

\* Service.setPasswordHashTx
setPasswordHashTx(st, us, userID, hash, fault) ==
  LET enc == Encode(userID)
      t1 == <<Ev("Encode", enc.err)>>
      fu == findUserByID(us, userID)
      t2 == Append(t1, Ev("findUserByID", fu))
      bk == Bucket(fault)
      t3 == Append(t2, Ev("Bucket", bk))
      p == Put(st, enc.b, hash, fault)
      t4 == Append(t3, Ev("Put", p.err))
  IN IF enc.err # "" THEN [store |-> st, err |-> CorruptUserIDError(String(userID), enc.err), trace |-> t1]
     ELSE IF fu # "" THEN [store |-> st, err |-> EIncorrectUser, trace |-> t2]
     ELSE IF bk # "" THEN [store |-> st, err |-> UnavailablePasswordServiceError(bk), trace |-> t3]
     ELSE IF p.err # "" THEN [store |-> st, err |-> UnavailablePasswordServiceError(p.err), trace |-> t4]
     ELSE [store |-> p.store, err |-> nil, trace |-> t4]

\* Variant: what the function put stays when the commit fails.
setPasswordHash_NoRollback(st, us, userID, hash, fault) ==
  LET t0 == <<Ev("Update", IF fault = "begin" THEN "ErrTx" ELSE "")>>
      r == setPasswordHashTx(st, us, userID, hash, fault)
      tc == Append(t0 \o r.trace, Ev("Commit", IF fault = "commit" THEN "ErrTx" ELSE ""))
  IN IF fault = "begin" THEN [store |-> st, err |-> RawError("ErrTx"), trace |-> t0]
     ELSE IF r.err # nil THEN [store |-> st, err |-> r.err, trace |-> t0 \o r.trace]
     ELSE IF fault = "commit" THEN [store |-> r.store, err |-> RawError("ErrTx"), trace |-> tc]
     ELSE [store |-> r.store, err |-> nil, trace |-> tc]

\* Service.setPasswordHash: kv.Update commits what the function wrote only
\* when the function returns nil and the commit succeeds; otherwise the
\* transaction is rolled back.
setPasswordHash(st, us, userID, hash, fault) ==
  LET t0 == <<Ev("Update", IF fault = "begin" THEN "ErrTx" ELSE "")>>
      r == setPasswordHashTx(st, us, userID, hash, fault)
      tc == Append(t0 \o r.trace, Ev("Commit", IF fault = "commit" THEN "ErrTx" ELSE ""))
  IN IF fault = "begin" THEN [store |-> st, err |-> RawError("ErrTx"), trace |-> t0]
     ELSE IF r.err # nil THEN [store |-> st, err |-> r.err, trace |-> t0 \o r.trace]
     ELSE IF fault = "commit" THEN [store |-> st, err |-> RawError("ErrTx"), trace |-> tc]
     ELSE [store |-> r.store, err |-> nil, trace |-> tc]

\* ------------------------------------------------------------------ state
VARIABLES
  users,    \* the IDs the user bucket resolves
  store,    \* bucket userspasswordv1: encoded ID -> digest (NoHash: no record)
  pc,       \* per caller: "idle", "compareUserPassword", "setPasswordHash"
  op,       \* per caller: the operation it runs ("" when idle)
  uid,      \* per caller: argument userID
  pw,       \* per caller: argument password (SetPassword, ComparePassword) or new
  old,      \* per caller: argument old of CompareAndSetPassword
  hash,     \* per caller: local hash / newHash
  steps,    \* per caller: trace of the collaborators the call has used so far
  raced,    \* per caller: the operation and plaintext of the last write another
            \* caller committed to the same user's record while this call was
            \* in progress (<<>>: none)
  returned, \* the call that returned in the last step, with its result
  lastSet   \* per key: the plaintext argument of the last committed write

vars == <<users, store, pc, op, uid, pw, old, hash, steps, raced, returned, lastSet>>

RandErrs == {"", "ErrRand"}

NoReturn ==
  [op |-> "", uid |-> 0, pw |-> <<>>, old |-> <<>>, result |-> nil, steps |-> <<>>, raced |-> <<>>]

Init ==
  /\ users = {1}
  /\ store = [k \in Keys |-> NoHash]
  /\ pc = [p \in Procs |-> "idle"]
  /\ op = [p \in Procs |-> ""]
  /\ uid = [p \in Procs |-> 0]
  /\ pw = [p \in Procs |-> <<>>]
  /\ old = [p \in Procs |-> <<>>]
  /\ hash = [p \in Procs |-> NoHash]
  /\ steps = [p \in Procs |-> <<>>]
  /\ raced = [p \in Procs |-> <<>>]
  /\ returned = NoReturn
  /\ lastSet = [k \in Keys |-> <<>>]

\* Caller p begins a call and goes on to its next step at `to`.
Begin(p, o, userID, password, oldPassword, h, trace, to) ==
  /\ pc' = [pc EXCEPT ![p] = to]
  /\ op' = [op EXCEPT ![p] = o]
  /\ uid' = [uid EXCEPT ![p] = userID]
  /\ pw' = [pw EXCEPT ![p] = password]
  /\ old' = [old EXCEPT ![p] = oldPassword]
  /\ hash' = [hash EXCEPT ![p] = h]
  /\ steps' = [steps EXCEPT ![p] = trace]
  /\ returned' = NoReturn

\* The call of caller p returns err to its caller; p is idle again.
Return(p, o, userID, password, oldPassword, err, trace) ==
  /\ returned' = [op |-> o, uid |-> userID, pw |-> password, old |-> oldPassword,
                  result |-> err, steps |-> trace, raced |-> raced[p]]
  /\ pc' = [pc EXCEPT ![p] = "idle"]
  /\ op' = [op EXCEPT ![p] = ""]
  /\ uid' = [uid EXCEPT ![p] = 0]
  /\ pw' = [pw EXCEPT ![p] = <<>>]
  /\ old' = [old EXCEPT ![p] = <<>>]
  /\ hash' = [hash EXCEPT ![p] = NoHash]
  /\ steps' = [steps EXCEPT ![p] = <<>>]

\* The Update of caller p ended with err: when it committed (err = nil), note
\* whose plaintext is now current and which calls in progress it raced.
Committed(p, err) ==
  /\ lastSet' = IF err = nil THEN [lastSet EXCEPT ![Encode(uid[p]).b] = pw[p]] ELSE lastSet
  /\ raced' = [q \in Procs |->
                 IF q = p THEN <<>>
                 ELSE IF err = nil /\ pc[q] # "idle" /\ uid[q] = uid[p] THEN <<op[p], pw[p]>>
                 ELSE raced[q]]

\* SetPassword, up to the call of setPasswordHash.
SetPassword(p) ==
  /\ pc[p] = "idle"
  /\ \E userID \in UserIDs, password \in Plaintexts, rnd \in RandErrs :
       LET r == generatePasswordHash(password, rnd) IN
       IF r.err # nil
         THEN Return(p, "SetPassword", userID, password, <<>>, r.err, r.trace)
         ELSE Begin(p, "SetPassword", userID, password, <<>>, r.hash, r.trace, "setPasswordHash")
  /\ UNCHANGED <<users, store, raced, lastSet>>

\* SetPassword: return s.setPasswordHash(ctx, userID, hash).
SetPasswordWrite(p) ==
  /\ pc[p] = "setPasswordHash"
  /\ op[p] = "SetPassword"
  /\ \E fault \in UpdateFaults :
       LET r == setPasswordHash(store, users, uid[p], hash[p], fault) IN
       /\ store' = r.store
       /\ Committed(p, r.err)
       /\ Return(p, op[p], uid[p], pw[p], old[p], r.err, steps[p] \o r.trace)
  /\ UNCHANGED users

\* ComparePassword: one call of compareUserPassword.
ComparePassword(p) ==
  /\ pc[p] = "idle"
  /\ \E userID \in UserIDs, password \in Plaintexts, fault \in ViewFaults :
       LET r == compareUserPassword(store, users, userID, password, fault) IN
       Return(p, "ComparePassword", userID, password, <<>>, r.err, r.trace)
  /\ UNCHANGED <<users, store, raced, lastSet>>

\* CompareAndSetPassword, up to the call of compareUserPassword.
CompareAndSetPassword(p) ==
  /\ pc[p] = "idle"
  /\ \E userID \in UserIDs, o \in Plaintexts, new \in Plaintexts, rnd \in RandErrs :
       LET r == generatePasswordHash(new, rnd) IN
       IF r.err # nil
         THEN Return(p, "CompareAndSetPassword", userID, new, o, r.err, r.trace)
         ELSE Begin(p, "CompareAndSetPassword", userID, new, o, r.hash, r.trace, "compareUserPassword")
  /\ UNCHANGED <<users, store, raced, lastSet>>

\* CompareAndSetPassword: s.compareUserPassword(ctx, userID, old).
CompareAndSetPasswordCheck(p) ==
  /\ pc[p] = "compareUserPassword"
  /\ \E fault \in ViewFaults :
       LET r == compareUserPassword(store, users, uid[p], old[p], fault) IN
       IF r.err # nil
         THEN /\ Return(p, op[p], uid[p], pw[p], old[p], r.err, steps[p] \o r.trace)
              /\ raced' = [raced EXCEPT ![p] = <<>>]
         ELSE /\ Begin(p, op[p], uid[p], pw[p], old[p], hash[p], steps[p] \o r.trace, "setPasswordHash")
              /\ UNCHANGED raced
  /\ UNCHANGED <<users, store, lastSet>>

\* CompareAndSetPassword: return s.setPasswordHash(ctx, userID, newHash).
CompareAndSetPasswordWrite(p) ==
  /\ pc[p] = "setPasswordHash"
  /\ op[p] = "CompareAndSetPassword"
  /\ \E fault \in UpdateFaults :
       LET r == setPasswordHash(store, users, uid[p], hash[p], fault) IN
       /\ store' = r.store
       /\ Committed(p, r.err)
       /\ Return(p, op[p], uid[p], pw[p], old[p], r.err, steps[p] \o r.trace)
  /\ UNCHANGED users

Next ==
  \E p \in Procs :
    \/ SetPassword(p)
    \/ SetPasswordWrite(p)
    \/ ComparePassword(p)
    \/ CompareAndSetPassword(p)
    \/ CompareAndSetPasswordCheck(p)
    \/ CompareAndSetPasswordWrite(p)

Spec == Init /\ [][Next]_vars

\* User lifecycle, which is not the password service's: a user is created,
\* or deleted (its credential record is left to the service).
CreateUser(u) ==
  /\ u \notin users
  /\ users' = users \cup {u}
  /\ returned' = NoReturn
  /\ UNCHANGED <<store, pc, op, uid, pw, old, hash, steps, raced, lastSet>>

DeleteUser(u) ==
  /\ u \in users
  /\ users' = users \ {u}
  /\ returned' = NoReturn
  /\ UNCHANGED <<store, pc, op, uid, pw, old, hash, steps, raced, lastSet>>

NextLifecycle ==
  \/ Next
  \/ \E u \in {1} : CreateUser(u) \/ DeleteUser(u)

SpecLifecycle == Init /\ [][NextLifecycle]_vars

\* The service starting over a bucket that holds the record of a user who
\* set a password and was deleted afterwards: user 2 is unknown, its record
\* is still there.
InitLeftover ==
  /\ users = {1}
  /\ store = [k \in Keys |->
               IF k = Encode(2).b
                 THEN [pw |-> Rep(2, MaxPasswordLength), cost |-> DefaultCost]
                 ELSE NoHash]
  /\ pc = [p \in Procs |-> "idle"]
  /\ op = [p \in Procs |-> ""]
  /\ uid = [p \in Procs |-> 0]
  /\ pw = [p \in Procs |-> <<>>]
  /\ old = [p \in Procs |-> <<>>]
  /\ hash = [p \in Procs |-> NoHash]
  /\ steps = [p \in Procs |-> <<>>]
  /\ raced = [p \in Procs |-> <<>>]
  /\ returned = NoReturn
  /\ lastSet = [k \in Keys |-> IF k = Encode(2).b THEN Rep(2, MaxPasswordLength) ELSE <<>>]

SpecLeftover == InitLeftover /\ [][Next]_vars

\* The hashing adapter used by itself: a holder of the Crypt calls
\* GenerateFromPassword with a cost of its choice.
CostArgs == -1..MaxCostArg

GenerateAtCost ==
  /\ \E password \in Plaintexts, cost \in CostArgs, rnd \in RandErrs :
       LET r == GenerateFromPassword(password, cost, rnd) IN
       returned' = [op |-> "GenerateFromPassword", pw |-> password, cost |-> cost,
                    rnd |-> rnd, hash |-> r.hash, err |-> r.err]
  /\ UNCHANGED <<users, store, pc, op, uid, pw, old, hash, steps, raced, lastSet>>

NextCost == GenerateAtCost

SpecCost == Init /\ [][NextCost]_vars

TypeOK == \A p \in Procs : pc[p] \in {"idle", "compareUserPassword", "setPasswordHash"}

\* ------------------------------------------------------------- properties
Key(u) == Encode(u).b

\* The plaintext of the last committed write to u's record (<<>>: none).
Current(u) == IF u = 0 THEN <<>> ELSE lastSet[Key(u)]

Called(t, c) == \E i \in 1..Len(t) : t[i][1] = c
Outcome(t, c, e) == \E i \in 1..Len(t) : t[i] = <<c, e>>

\* No collaborator failed for a reason of its own (store or random source).
Faultless(t) == \A i \in 1..Len(t) : t[i][2] \notin {"ErrTx", "ErrStore", "ErrBucketNotFound", "ErrRand"}

\* What ComparePassword(u, q) returns in the current state, the store working.
Compare(u, q) == compareUserPassword(store, users, u, q, "none").err
ComparePrime(u, q) == compareUserPassword(store', users', u, q, "none").err

\* C1 (as claimed): ComparePassword returns the one error EIncorrectPassword
\* when the user is unknown, when the user has no credential record and when
\* the password is not the stored one.
C1_OneOutwardError ==
  (/\ returned.op = "ComparePassword"
   /\ returned.uid # 0
   /\ Faultless(returned.steps)
   /\ \/ returned.uid \notin users
      \/ store[Key(returned.uid)] = NoHash
      \/ Current(returned.uid) # returned.pw)
  => returned.result = EIncorrectPassword

\* C2: a new plaintext shorter than MinPasswordLength makes SetPassword and
\* CompareAndSetPassword return EShortPassword before any collaborator (the
\* hasher, a transaction, a Put) is used, for every user and every old.
C2_ShortPasswordRejected ==
  (/\ returned.op \in {"SetPassword", "CompareAndSetPassword"}
   /\ Len(returned.pw) < MinPasswordLength)
  => /\ returned.result = EShortPassword
     /\ returned.steps = <<>>

C2_Witness ==
  /\ returned.op = "CompareAndSetPassword"
  /\ Len(returned.pw) < MinPasswordLength
  /\ returned.uid \notin users
  /\ returned.result = EShortPassword

\* C3: once a write of plaintext p to a known user's record has committed
\* and no later write has, ComparePassword(u, p) returns nil and
\* ComparePassword(u, q), q # p, returns EIncorrectPassword (store working).
C3_RoundTrip ==
  (/\ returned.op = "ComparePassword"
   /\ returned.uid \in users
   /\ Faultless(returned.steps)
   /\ Current(returned.uid) # <<>>)
  => returned.result = IF returned.pw = Current(returned.uid) THEN nil ELSE EIncorrectPassword

C3_Witness ==
  /\ returned.op = "ComparePassword"
  /\ returned.result = nil
  /\ returned.pw = Current(returned.uid)

\* C4: when the compareUserPassword step of CompareAndSetPassword(u, old, new)
\* finds that old is not u's current password, the call returns an error at
\* that step, having opened no Update, the store is as it was, and
\* ComparePassword(u, original plaintext) still returns nil.
C4_FailedCheckWritesNothing ==
  [][\A p \in Procs :
      (/\ pc[p] = "compareUserPassword"
       /\ pc'[p] # "compareUserPassword"
       /\ Current(uid[p]) # old[p])
      => /\ pc'[p] = "idle"
         /\ returned'.op = "CompareAndSetPassword"
         /\ returned'.result # nil
         /\ ~Called(returned'.steps, "Update")
         /\ store' = store
         /\ (uid[p] \in users /\ Current(uid[p]) # <<>>)
              => ComparePrime(uid[p], Current(uid[p])) = nil]_vars

C4_Witness ==
  /\ returned.op = "CompareAndSetPassword"
  /\ returned.result = EIncorrectPassword
  /\ Outcome(returned.steps, "CompareHashAndPassword", "ErrMismatchedHashAndPassword")
  /\ Current(returned.uid) \notin {<<>>, returned.old}
  /\ Compare(returned.uid, Current(returned.uid)) = nil

\* C5: CompareAndSetPassword(u, old, new) for a known user, a valid new and
\* a working store: if old is u's current password when it is checked the
\* call goes on to its Update, and when it has run its Update it returns nil
\* and the record is the digest of new, so that ComparePassword(u, new)
\* returns nil and ComparePassword(u, old), old # new, EIncorrectPassword.
C5_CompareAndSetReplaces ==
  (/\ returned.op = "CompareAndSetPassword"
   /\ Len(returned.pw) >= MinPasswordLength
   /\ returned.uid \in users
   /\ Faultless(returned.steps))
  => /\ ~Called(returned.steps, "Update") => Current(returned.uid) # returned.old
     /\ Called(returned.steps, "Update")
          => /\ returned.result = nil
             /\ Compare(returned.uid, returned.pw) = nil
             /\ returned.old # returned.pw
                  => Compare(returned.uid, returned.old) = EIncorrectPassword

C5_Witness ==
  /\ returned.op = "CompareAndSetPassword"
  /\ returned.result = nil
  /\ returned.old # returned.pw
  /\ returned.raced = <<>>
  /\ Compare(returned.uid, returned.pw) = nil
  /\ Compare(returned.uid, returned.old) = EIncorrectPassword

\* C6: SetPassword for a known user with a valid plaintext returns nil
\* whatever other calls it overlaps (store working), and a record is always
\* the complete digest of the one plaintext whose write committed last: that
\* plaintext verifies against it and no other does.
C6_LastCommittedWins ==
  /\ (/\ returned.op = "SetPassword"
      /\ Len(returned.pw) >= MinPasswordLength
      /\ returned.uid \in users
      /\ Faultless(returned.steps))
     => returned.result = nil
  /\ \A k \in Keys :
       /\ lastSet[k] = <<>> => store[k] = NoHash
       /\ lastSet[k] # <<>>
            => /\ store[k] = [pw |-> lastSet[k], cost |-> DefaultCost]
               /\ \A q \in Plaintexts :
                    (CompareHashAndPassword(store[k], q) = "") <=> (q = lastSet[k])

\* Two SetPassword calls with different plaintexts overlapped and both
\* committed; the later one has just returned.
C6_Witness ==
  /\ returned.op = "SetPassword"
  /\ returned.result = nil
  /\ Len(returned.raced) = 2
  /\ returned.raced[1] = "SetPassword"
  /\ returned.raced[2] # returned.pw
  /\ Compare(returned.uid, returned.pw) = nil
  /\ Compare(returned.uid, returned.raced[2]) = EIncorrectPassword

\* C7: SetPassword(u, p) with a valid p for a valid ID that the user lookup
\* does not resolve returns EIncorrectUser, without a Bucket or Put call, and
\* u has no record.
C7_UnknownUserOnSet ==
  (/\ returned.op = "SetPassword"
   /\ Len(returned.pw) >= MinPasswordLength
   /\ returned.uid # 0
   /\ returned.uid \notin users
   /\ Faultless(returned.steps))
  => /\ returned.result = EIncorrectUser
     /\ ~Called(returned.steps, "Bucket")
     /\ ~Called(returned.steps, "Put")
     /\ store[Key(returned.uid)] = NoHash

C7_Witness ==
  /\ returned.op = "SetPassword"
  /\ returned.uid \notin users
  /\ returned.uid # 0
  /\ returned.result = EIncorrectUser
  /\ Called(returned.steps, "Update")

\* C8 (as claimed): a failed Get and a failed Put are both returned as
\* UnavailablePasswordServiceError, which is not what an absent record gives.
C8_StoreFailureUnavailable ==
  (\/ Outcome(returned.steps, "Get", "ErrStore")
   \/ Outcome(returned.steps, "Put", "ErrStore"))
  => /\ returned.result = UnavailablePasswordServiceError("ErrStore")
     /\ returned.result # EIncorrectPassword

\* C8 (amended): a failed Put is returned as UnavailablePasswordServiceError,
\* which differs from the result for an absent record; a failed Get is
\* returned as EIncorrectPassword, the very result for an absent record.
C8_PutUnavailableGetIncorrect ==
  /\ Outcome(returned.steps, "Put", "ErrStore")
       => /\ returned.result = UnavailablePasswordServiceError("ErrStore")
          /\ returned.result # EIncorrectPassword
  /\ Outcome(returned.steps, "Get", "ErrStore") => returned.result = EIncorrectPassword
  /\ Outcome(returned.steps, "Get", "ErrKeyNotFound") => returned.result = EIncorrectPassword

C8_Witness ==
  /\ returned.op = "CompareAndSetPassword"
  /\ Outcome(returned.steps, "Put", "ErrStore")
  /\ returned.result.Code = "unavailable"

\* C9: the store changes only in the Update of a SetPassword or a
\* CompareAndSetPassword, only at the key of that call's user, and a Put is
\* only called in an Update in which findUserByID resolved that user (who is
\* known in that very state) and with a digest of a plaintext of at least
\* MinPasswordLength bytes; when the user is gone by then, nothing is put.
UpdatePart(p) == SubSeq(returned'.steps, Len(steps[p]) + 1, Len(returned'.steps))

C9_WriteOnlyForKnownUser ==
  [][\A p \in Procs :
      IF pc[p] = "setPasswordHash" /\ pc'[p] = "idle"
        THEN /\ store' # store => Outcome(UpdatePart(p), "Put", "")
             /\ uid[p] \notin users => ~Called(UpdatePart(p), "Put") /\ store' = store
             /\ Called(UpdatePart(p), "Put")
                  => /\ uid[p] \in users
                     /\ Outcome(UpdatePart(p), "findUserByID", "")
                     /\ Len(hash[p].pw) >= MinPasswordLength
                     /\ hash[p].pw = pw[p]
                     /\ \A k \in Keys :
                          store'[k] = IF k = Key(uid[p]) /\ returned'.result = nil
                                        THEN hash[p] ELSE store[k]
        ELSE (\A q \in Procs : ~(pc[q] = "setPasswordHash" /\ pc'[q] = "idle"))
               => store' = store]_vars

\* The user was deleted between the check and the write of a
\* CompareAndSetPassword, which then wrote nothing.
C9_Witness ==
  /\ returned.op = "CompareAndSetPassword"
  /\ Outcome(returned.steps, "CompareHashAndPassword", "")
  /\ Called(returned.steps, "Update")
  /\ returned.result = EIncorrectUser
  /\ ~Called(returned.steps, "Put")

\* C10: a ComparePassword leaves the store as it is, and it does not return
\* nil for a password that is not the user's current one; so no repetition
\* of it succeeds until a write to the record commits.
C10_CompareReadOnly ==
  [][returned'.op = "ComparePassword"
      => /\ store' = store
         /\ Current(returned'.uid) # returned'.pw => returned'.result # nil]_vars

C10_Witness ==
  /\ returned.op = "ComparePassword"
  /\ returned.result = EIncorrectPassword
  /\ Current(returned.uid) \notin {<<>>, returned.pw}
  /\ Outcome(returned.steps, "CompareHashAndPassword", "ErrMismatchedHashAndPassword")

\* C11 (as claimed): whatever SetPassword, ComparePassword and
\* CompareAndSetPassword return is nil or one of the six classified errors
\* of the service, never an error of the store or of the hasher itself.
Classified ==
  {EIncorrectPassword, EIncorrectUser, EShortPassword}
    \cup {UnavailablePasswordServiceError(e) : e \in {"ErrStore", "ErrBucketNotFound", "ErrTx"}}
    \cup {CorruptUserIDError(String(u), "ErrInvalidID") : u \in UserIDs}
    \cup {InternalPasswordHashError(e) : e \in RandErrs}

C11_AllErrorsClassified ==
  returned.op # "" => returned.result \in Classified \cup {nil}

\* C12: a SetPassword or CompareAndSetPassword that returns an error has
\* left the store as it was, in each of its steps, also when its Update
\* could not begin or commit; and no step before the return of a call
\* changes the store.
C12_ErrorMeansNoWrite ==
  [][/\ (returned'.op \in {"SetPassword", "CompareAndSetPassword"} /\ returned'.result # nil)
          => store' = store
     /\ returned'.op = "" => store' = store]_vars

\* The commit of the Update of a CompareAndSetPassword failed: the call
\* returned an error and old is still the user's password.
C12_Witness ==
  /\ returned.op = "CompareAndSetPassword"
  /\ Outcome(returned.steps, "Put", "")
  /\ Outcome(returned.steps, "Commit", "ErrTx")
  /\ returned.result # nil
  /\ returned.old # returned.pw
  /\ store[Key(returned.uid)] = [pw |-> returned.old, cost |-> DefaultCost]

\* C13 (as claimed): in ComparePassword an ID that does not encode, a failed
\* bucket lookup and a failed Get are each returned as EIncorrectPassword.
C13_CompareFailuresCollapse ==
  (/\ returned.op = "ComparePassword"
   /\ \/ Outcome(returned.steps, "Encode", "ErrInvalidID")
      \/ Outcome(returned.steps, "Bucket", "ErrBucketNotFound")
      \/ Outcome(returned.steps, "Get", "ErrStore"))
  => returned.result = EIncorrectPassword

\* C14: ComparePassword(u, p) returns nil only if, in the state its View
\* read, u encodes, u is a known user, u has a record, CompareHashAndPassword
\* accepts p against that record, and p is the plaintext of the last
\* committed write to it.
C14_SuccessOnlyIfAllHold ==
  (returned.op = "ComparePassword" /\ returned.result = nil)
  => /\ Encode(returned.uid).err = ""
     /\ returned.uid \in users
     /\ store[Key(returned.uid)] # NoHash
     /\ CompareHashAndPassword(store[Key(returned.uid)], returned.pw) = ""
     /\ Current(returned.uid) = returned.pw
     /\ Faultless(returned.steps)

\* A ComparePassword that ran every step of its View without fault returned
\* nil for a known user whose record holds the digest of the password given.
C14_Witness ==
  /\ returned.op = "ComparePassword"
  /\ returned.result = nil
  /\ returned.uid \in users
  /\ store[Key(returned.uid)] = [pw |-> returned.pw, cost |-> DefaultCost]
  /\ Outcome(returned.steps, "findUserByID", "")
  /\ Outcome(returned.steps, "Get", "")

\* C15 (as claimed): when the Update of a CompareAndSetPassword(u, old, new)
\* commits, the record it overwrites is one that old verifies against.
C15_CompareAndSetAtomic ==
  [][\A p \in Procs :
      (/\ pc[p] = "setPasswordHash"
       /\ op[p] = "CompareAndSetPassword"
       /\ pc'[p] = "idle"
       /\ returned'.result = nil)
      => CompareHashAndPassword(store[Key(uid[p])], old[p]) = ""]_vars

\* The collaborators of a trace, in the order they were called.
Names(t) == [i \in 1..Len(t) |-> t[i][1]]

IsPrefix(s, t) == Len(s) <= Len(t) /\ SubSeq(t, 1, Len(s)) = s

\* The calls of a whole setPasswordHash and of a whole compareUserPassword.
UpdateOrder == <<"Update", "Encode", "findUserByID", "Bucket", "Put", "Commit">>
ViewOrder == <<"View", "Encode", "findUserByID", "Bucket", "Get", "CompareHashAndPassword">>

\* C16: a SetPassword calls its collaborators in the order digest, then
\* inside the Update: Encode, findUserByID, Bucket, Put; the digest is only
\* computed for a password that passed the length check; EIncorrectUser is
\* only returned after a digest was computed; for an unknown user a short
\* password gives EShortPassword and a failed digest InternalPasswordHashError.
C16_SetPasswordOrder ==
  returned.op = "SetPassword"
  => /\ IsPrefix(Names(returned.steps), <<"GenerateFromPassword">> \o UpdateOrder)
     /\ Called(returned.steps, "GenerateFromPassword") <=> Len(returned.pw) >= MinPasswordLength
     /\ Called(returned.steps, "Update") => Outcome(returned.steps, "GenerateFromPassword", "")
     /\ returned.result = EIncorrectUser
          => /\ Outcome(returned.steps, "GenerateFromPassword", "")
             /\ Outcome(returned.steps, "Encode", "")
             /\ ~Called(returned.steps, "Bucket")
     /\ Called(returned.steps, "Put")
          => Outcome(returned.steps, "findUserByID", "") /\ Outcome(returned.steps, "Bucket", "")
     /\ (returned.uid \notin users /\ Len(returned.pw) < MinPasswordLength)
          => returned.result = EShortPassword
     /\ (returned.uid \notin users /\ Outcome(returned.steps, "GenerateFromPassword", "ErrRand"))
          => returned.result = InternalPasswordHashError("ErrRand")

\* A SetPassword for an unknown user whose digest could not be computed
\* returned the hashing failure.
C16_Witness ==
  /\ returned.op = "SetPassword"
  /\ returned.uid = 2
  /\ returned.uid \notin users
  /\ returned.steps = <<Ev("GenerateFromPassword", "ErrRand")>>
  /\ returned.result = InternalPasswordHashError("ErrRand")

\* C17: a CompareAndSetPassword computes the new digest first, then runs the
\* View that checks old, then the Update, and the Update only when the check
\* accepted old; a short new password gives EShortPassword before any
\* transaction, whatever old is.
C17_CompareAndSetOrder ==
  returned.op = "CompareAndSetPassword"
  => /\ IsPrefix(Names(returned.steps), <<"GenerateFromPassword">> \o ViewOrder \o UpdateOrder)
     /\ Called(returned.steps, "GenerateFromPassword") <=> Len(returned.pw) >= MinPasswordLength
     /\ Called(returned.steps, "View") => Outcome(returned.steps, "GenerateFromPassword", "")
     /\ Called(returned.steps, "Update") => Outcome(returned.steps, "CompareHashAndPassword", "")
     /\ Len(returned.pw) < MinPasswordLength
          => returned.result = EShortPassword /\ returned.steps = <<>>

\* A CompareAndSetPassword with a short new password and an old password
\* that is not the user's current one returned EShortPassword.
C17_Witness ==
  /\ returned.op = "CompareAndSetPassword"
  /\ Len(returned.pw) < MinPasswordLength
  /\ returned.uid \in users
  /\ store[Key(returned.uid)] # NoHash
  /\ CompareHashAndPassword(store[Key(returned.uid)], returned.old) # ""
  /\ returned.result = EShortPassword

\* The keys that hold a record.
Records(st) == {k \in Keys : st[k] # NoHash}

\* C18: no step removes a record; distinct IDs have distinct keys, so a user
\* has one key and at most one record; a write that commits leaves exactly
\* the records there were plus the one under the key of its user, which is
\* the digest the call computed.
C18_RecordsStayOnePerUser ==
  /\ \A u, v \in UserIDs \ {0} : Key(u) = Key(v) => u = v
  /\ [][/\ store' # store => Records(store) \subseteq Records(store')
         /\ \A p \in Procs :
              (/\ pc[p] = "setPasswordHash"
               /\ pc'[p] = "idle"
               /\ returned'.result = nil)
              => /\ Records(store') = Records(store) \cup {Key(uid[p])}
                 /\ store'[Key(uid[p])] = hash[p]
                 /\ Key(uid[p]) \in Records(store)
                      => Cardinality(Records(store')) = Cardinality(Records(store))]_vars

\* A SetPassword for a user whose record a concurrent call had already
\* verified against has committed: the record was replaced, and it is the
\* only one.
C18_Witness ==
  /\ returned.op = "SetPassword"
  /\ returned.result = nil
  /\ \E q \in Procs :
       /\ pc[q] = "setPasswordHash"
       /\ op[q] = "CompareAndSetPassword"
       /\ uid[q] = returned.uid
       /\ old[q] # returned.pw
  /\ Records(store) = {Key(returned.uid)}
  /\ store[Key(returned.uid)] = [pw |-> returned.pw, cost |-> DefaultCost]

\* The digests a record of another user may hold.
OtherDigests ==
  {NoHash} \cup {[pw |-> q, cost |-> DefaultCost] : q \in {r \in Plaintexts : Len(r) >= MinPasswordLength}}

\* No key but the one of user u changes in this step.
Frame(u) == \A k \in Keys \ {Key(u)} : store'[k] = store[k]

\* What the next transaction of caller p does is the same whatever the
\* records under the keys of other users hold.
ReadsOnlyOwnRecord(p) ==
  /\ pc[p] = "compareUserPassword"
       => \A fault \in ViewFaults, k \in Keys \ {Key(uid[p])}, h \in OtherDigests :
            compareUserPassword([store EXCEPT ![k] = h], users, uid[p], old[p], fault)
              = compareUserPassword(store, users, uid[p], old[p], fault)
  /\ pc[p] = "setPasswordHash"
       => \A fault \in UpdateFaults, k \in Keys \ {Key(uid[p])}, h \in OtherDigests :
            LET a == setPasswordHash(store, users, uid[p], hash[p], fault)
                b == setPasswordHash([store EXCEPT ![k] = h], users, uid[p], hash[p], fault)
            IN /\ b.err = a.err
               /\ b.trace = a.trace
               /\ b.store = [a.store EXCEPT ![k] = h]

\* C19: a step of SetPassword or CompareAndSetPassword for user u leaves the
\* record under every key but u's as it was, whatever it returns, and what
\* its View and its Update do does not depend on the records under the other
\* keys.
C19_OnlyOwnRecord ==
  /\ [](\A p \in Procs : ReadsOnlyOwnRecord(p))
  /\ [][store' # store
          => /\ returned'.op \in {"SetPassword", "CompareAndSetPassword"} => Frame(returned'.uid)
             /\ \A p \in Procs : (pc'[p] # "idle" /\ pc'[p] # pc[p]) => Frame(uid'[p])]_vars

\* A CompareAndSetPassword for user 1 replaced user 1's record while the
\* record of user 2 was there, and user 2's record is as it was.
C19_Witness ==
  /\ returned.op = "CompareAndSetPassword"
  /\ returned.uid = 1
  /\ returned.result = nil
  /\ returned.old # returned.pw
  /\ store[Key(1)] = [pw |-> returned.pw, cost |-> DefaultCost]
  /\ store[Key(2)] = [pw |-> Rep(2, MaxPasswordLength), cost |-> DefaultCost]
  /\ store[Key(1)] # store[Key(2)]

\* C20: Bcrypt.GenerateFromPassword with a cost below MinCost hashes at
\* DefaultCost and fails only when the random source does; with a cost of
\* MinCost or more it hashes at the cost given; no digest has a cost below
\* MinCost.
C20_CostClamped ==
  returned.op = "GenerateFromPassword"
  => /\ returned.cost < MinCost
          => /\ returned.err = returned.rnd
             /\ returned.err = "" => returned.hash.cost = DefaultCost
     /\ (returned.cost >= MinCost /\ returned.err = "")
          => returned.hash.cost = returned.cost
     /\ returned.err = ""
          => returned.hash.cost >= MinCost /\ returned.hash.pw = returned.pw
     /\ DefaultCost >= MinCost

\* A digest was asked for at a cost below MinCost and made at DefaultCost.
C20_Witness ==
  /\ returned.op = "GenerateFromPassword"
  /\ returned.cost = MinCost - 1
  /\ returned.err = ""
  /\ returned.hash.cost = DefaultCost

====
